---- MODULE Spec2Model ----
(***************************************************************************)
(* A model of the `reformation` crate: the derive macro                    *)
(* (reformation_derive/src/lib.rs) that turns a format string and a struct *)
(* into an implementation of the trait Reformation and of FromStr, and the *)
(* run-time support (src/lib.rs) with the primitive implementations.       *)
(*                                                                         *)
(* A string is a sequence of characters; a character is a one-letter TLA+  *)
(* string.  "U" stands for one character whose UTF-8 encoding is two bytes *)
(* long (such as U+00E9); every other character is one byte long.          *)
(***************************************************************************)
EXTENDS Integers, Sequences, FiniteSets, TLC

\* ------------------------------------------------------------------ bounds

\* longest format string handed to arguments() in SpecArgs
MaxLen == 5

\* most pieces a format string of Spec is put together from
MaxPieces == 2

\* most fields of the struct under derivation
MaxFields == 2

\* threads that call from_str in SpecConc
NThreads == 2

\* ----------------------------------------------------------------- strings

\* char::len_utf8
len_utf8(c) == IF c = "U" THEN 2 ELSE 1

RECURSIVE byte_len(_)
\* str::len: the length of a string in bytes
byte_len(s) == IF s = <<>> THEN 0 ELSE len_utf8(Head(s)) + byte_len(Tail(s))

RECURSIVE byte_slice(_, _, _, _, _)
\* the characters of s that start at the bytes start..end-1, when a character
\* starts at byte `start` and one starts or the string ends at byte `end`;
\* k is the next character to look at and i the byte it starts at
byte_slice(s, k, i, start, end) ==
    IF k > Len(s)
    THEN [some |-> (i = start \/ start < i) /\ end = i, val |-> <<>>]
    ELSE IF i < start
    THEN byte_slice(s, k + 1, i + len_utf8(s[k]), start, end)
    ELSE IF i > start /\ i - len_utf8(s[k - 1]) < start
    THEN [some |-> FALSE, val |-> <<>>]
    ELSE IF i < end
    THEN LET rest == byte_slice(s, k + 1, i + len_utf8(s[k]), start, end)
         IN  [some |-> rest.some, val |-> <<s[k]>> \o rest.val]
    ELSE [some |-> i = end, val |-> <<>>]

\* str::get(start..end): None unless start <= end and both are char boundaries
str_get(s, start, end) ==
    IF start <= end
    THEN LET slice == byte_slice(s, 1, 0, start, end)
         IN  IF slice.some THEN slice ELSE [some |-> FALSE, val |-> <<>>]
    ELSE [some |-> FALSE, val |-> <<>>]

RECURSIVE Strings(_, _)
\* every string of at most n characters of the alphabet
Strings(alphabet, n) ==
    IF n = 0 THEN {<<>>}
    ELSE LET shorter == Strings(alphabet, n - 1)
         IN  shorter \cup {Append(s, c) : s \in shorter, c \in alphabet}

\* -------------------------------------------------------------- arguments()

\* a faulty push of a start position, against which C9 is tested: the position of
\* the bracket itself, not the position after it
push_start_at_bracket(i, c) == i

\* curly_bracket_stack.push(i + c.len_utf8())
push_start(i, c) == i + len_utf8(c)

RECURSIVE arguments_loop(_, _, _, _, _)
\* the loop of arguments(): iter.next() yields the k-th character c and the
\* byte i it starts at; the result is the set `map` and whether
\* get(start..end).unwrap() panicked
arguments_loop(format_string, k, i, curly_bracket_stack, map) ==
    IF k > Len(format_string)
    THEN [map |-> map, panicked |-> FALSE]
    ELSE LET c == format_string[k]
             peek_is_open == k < Len(format_string) /\ format_string[k + 1] = "{"
             n == Len(curly_bracket_stack)
             substr == str_get(format_string, curly_bracket_stack[n], i)
             next(stack, found) ==
                 arguments_loop(format_string, k + 1, i + len_utf8(c), stack, found)
         IN  IF c = "{"
             THEN IF ~peek_is_open
                  THEN next(Append(curly_bracket_stack, push_start(i, c)), map)
                  ELSE next(curly_bracket_stack, map)
             ELSE IF c = "}"
             THEN IF curly_bracket_stack # <<>>
                  THEN IF substr.some
                       THEN next(SubSeq(curly_bracket_stack, 1, n - 1),
                                 map \cup {substr.val})
                       ELSE [map |-> map, panicked |-> TRUE]
                  ELSE next(curly_bracket_stack, map)
             ELSE next(curly_bracket_stack, map)

\* fn arguments(format_string: &str) -> HashSet<String>
arguments(format_string) == arguments_loop(format_string, 1, 0, <<>>, {})

\* ------------------------------------------------- the trait Reformation

\* the types of group_impl_parse_primitive!{..} modelled here
Primitives == {"u8", "i8", "String"}

\* $re of group_impl_parse_primitive: r"(\d+)", r"([\+-]?\d+)", r"(.*)"
primitive_regex_str(ty) ==
    CASE ty = "u8" -> <<"(", "\\", "d", "+", ")">>
      [] ty = "i8" -> <<"(", "[", "\\", "+", "-", "]", "?", "\\", "d", "+", ")">>
      [] ty = "String" -> <<"(", ".", "*", ")">>

\* a character of a composed pattern with where it comes from: `owner` is the
\* name of the format argument whose value holds it (<<>> for the format
\* string's own text), `prim` the primitive type whose $re holds it ("" for the
\* text of a format string)
Annotated(c, owner, prim) == [c |-> c, owner |-> owner, prim |-> prim]

\* the characters of an annotated string
Plain(as) == [k \in 1..Len(as) |-> as[k].c]

\* ------------------------------------------------------------------ format!

Letters == {"a", "b", "n", "x", "y"}

\* an identifier: what a named argument of format! may be called
is_ident(name) == name # <<>> /\ \A k \in 1..Len(name) : name[k] \in Letters

\* the position of the first "}" of s after position k, 0 when there is none
first_close(s, k) ==
    LET closes == {j \in (k + 1)..Len(s) : s[j] = "}"}
    IN  IF closes = {} THEN 0 ELSE CHOOSE j \in closes : \A m \in closes : j <= m

RECURSIVE format_parse(_, _)
\* the pieces of a format string from its k-th character on, as format! reads
\* it: "{{" and "}}" are the literals "{" and "}", {name} is a named argument;
\* an unmatched bracket, {} with no positional argument given and a name that
\* is no identifier are errors.  Format strings of this model hold no ":"
\* between the brackets of a placeholder.
format_parse(s, k) ==
    IF k > Len(s) THEN [ok |-> TRUE, pieces |-> <<>>]
    ELSE LET doubled == k < Len(s) /\ s[k + 1] = s[k]
             close == first_close(s, k)
             cons(piece, rest) ==
                 [ok |-> rest.ok, pieces |-> <<piece>> \o rest.pieces]
             failed == [ok |-> FALSE, pieces |-> <<>>]
         IN  IF s[k] \in {"{", "}"} /\ doubled
             THEN cons([arg |-> FALSE, c |-> s[k], name |-> <<>>], format_parse(s, k + 2))
             ELSE IF s[k] = "}" THEN failed
             ELSE IF s[k] = "{"
             THEN IF close = 0 \/ ~is_ident(SubSeq(s, k + 1, close - 1))
                  THEN failed
                  ELSE cons([arg |-> TRUE, c |-> "", name |-> SubSeq(s, k + 1, close - 1)],
                            format_parse(s, close + 1))
             ELSE cons([arg |-> FALSE, c |-> s[k], name |-> <<>>], format_parse(s, k + 1))

RECURSIVE format_write(_, _)
\* the output of format!: each literal, and each named argument's value
\* (named: name -> annotated string) owned by that argument
format_write(pieces, named) ==
    IF pieces = <<>> THEN <<>>
    ELSE LET p == Head(pieces)
             value == named[p.name]
         IN  (IF p.arg
              THEN [k \in 1..Len(value) |-> Annotated(value[k].c, p.name, value[k].prim)]
              ELSE <<Annotated(p.c, <<>>, "")>>)
             \o format_write(Tail(pieces), named)

\* format!(fmt, name = value, ..): rejected at compile time when the format
\* string is malformed, names an argument that is not given, or is given a
\* named argument it never uses
format_macro(fmt, named) ==
    LET parsed == format_parse(fmt, 1)
        used == {parsed.pieces[k].name :
                    k \in {j \in 1..Len(parsed.pieces) : parsed.pieces[j].arg}}
    IN  IF parsed.ok /\ used = DOMAIN named
        THEN [ok |-> TRUE, out |-> format_write(parsed.pieces, named)]
        ELSE [ok |-> FALSE, out |-> <<>>]

\* ------------------------------------------- the regex crate, by contract

RECURSIVE regex_roles(_, _, _)
\* what each character of a pattern is to Regex::new, from the k-th on:
\* "esc" a backslash and "lit" the character it escapes, "lit" every character
\* of a class [..], "cap" the "(" of a capturing group, "noncap" the "(" of
\* (?:, "flag" the "?:" after it, "close", "bar", "quant" (? * +), "brace" (a
\* counted repetition, which no pattern of this model completes) and "bad"
\* (a dangling backslash, a "(?" that is not "(?:")
regex_roles(p, k, in_class) ==
    IF k > Len(p) THEN <<>>
    ELSE LET c == p[k]
             next == IF k < Len(p) THEN p[k + 1] ELSE ""
             next2 == IF k + 1 < Len(p) THEN p[k + 2] ELSE ""
         IN  IF c = "\\"
             THEN IF k = Len(p) THEN <<"bad">>
                  ELSE <<"esc", "lit">> \o regex_roles(p, k + 2, in_class)
             ELSE IF in_class
             THEN <<"lit">> \o regex_roles(p, k + 1, c # "]")
             ELSE IF c = "[" THEN <<"lit">> \o regex_roles(p, k + 1, TRUE)
             ELSE IF c = "(" /\ next = "?"
             THEN IF next2 = ":"
                  THEN <<"noncap", "flag", "flag">> \o regex_roles(p, k + 3, FALSE)
                  ELSE <<"bad">> \o regex_roles(p, k + 1, FALSE)
             ELSE <<CASE c = "(" -> "cap"
                      [] c = ")" -> "close"
                      [] c = "|" -> "bar"
                      [] c \in {"?", "*", "+"} -> "quant"
                      [] c = "{" -> "brace"
                      [] OTHER -> "lit">> \o regex_roles(p, k + 1, FALSE)

\* the nesting depth of groups before character k of a pattern with roles r
regex_depth(r, k) ==
    Cardinality({j \in 1..(k - 1) : r[j] \in {"cap", "noncap"}})
    - Cardinality({j \in 1..(k - 1) : r[j] = "close"})

\* Regex::new(p).is_ok(): the groups are balanced, each repetition operator
\* follows an expression, and nothing is "bad" or a "brace"
regex_valid(p) ==
    LET r == regex_roles(p, 1, FALSE)
    IN  /\ \A k \in 1..Len(r) : r[k] \notin {"bad", "brace"}
        /\ \A k \in 1..(Len(r) + 1) : regex_depth(r, k) >= 0
        /\ regex_depth(r, Len(r) + 1) = 0
        /\ \A k \in 1..Len(r) :
              r[k] = "quant" => k > 1 /\ r[k - 1] \in {"lit", "close", "quant"}

RECURSIVE positions_of(_, _, _)
\* the positions from k on, in order, of the characters of role `role`
positions_of(r, k, role) ==
    IF k > Len(r) THEN <<>>
    ELSE (IF r[k] = role THEN <<k>> ELSE <<>>) \o positions_of(r, k + 1, role)

\* the positions of the "(" of the capturing groups of a valid pattern:
\* group i of Captures (i >= 1) is the i-th of them
capture_groups(p) == positions_of(regex_roles(p, 1, FALSE), 1, "cap")

\* Regex::captures_len() - 1
count_groups(p) == Len(capture_groups(p))

\* the position of the ")" that closes the group opened at position open
group_close(r, open) ==
    CHOOSE j \in (open + 1)..Len(r) :
        /\ r[j] = "close"
        /\ regex_depth(r, j + 1) = regex_depth(r, open)
        /\ \A m \in (open + 1)..(j - 1) :
              r[m] = "close" => regex_depth(r, m + 1) > regex_depth(r, open)

\* Can a match of the valid pattern p leave the group opened at position g
\* without a value (Captures::get is None)?  Yes when g lies in a group, or
\* is a group, that "?" or "*" lets the match skip, or lies in one branch of
\* an alternation.
may_not_participate(p, g) ==
    LET r == regex_roles(p, 1, FALSE)
        opens == {o \in 1..Len(r) : r[o] \in {"cap", "noncap"}}
        around == {o \in opens : o <= g /\ g < group_close(r, o)}
        skippable(o) ==
            /\ group_close(r, o) < Len(r)
            /\ r[group_close(r, o) + 1] = "quant"
            /\ p[group_close(r, o) + 1] \in {"?", "*"}
        \* bar b lies in the group opened at o
        inside(b, o) == o < b /\ b < group_close(r, o)
        bars == {b \in 1..Len(r) : r[b] = "bar"}
    IN  \/ \E o \in around : skippable(o)
        \/ \E b \in bars :
              /\ ~(g < b /\ b < group_close(r, g))
              /\ \A o \in opens : inside(b, o) => (o < g /\ g < group_close(r, o))

\* --------------------------------------------------- the primitive impls

DigitValue(c) ==
    CASE c = "0" -> 0 [] c = "1" -> 1 [] c = "2" -> 2 [] c = "3" -> 3
      [] c = "4" -> 4 [] c = "5" -> 5 [] c = "6" -> 6 [] c = "7" -> 7
      [] c = "8" -> 8 [] c = "9" -> 9

Digits == {"0", "1", "2", "3", "4", "5", "6", "7", "8", "9"}

is_digits(s) == s # <<>> /\ \A k \in 1..Len(s) : s[k] \in Digits

RECURSIVE decimal(_)
\* the number a string of digits writes
decimal(s) ==
    IF s = <<>> THEN 0 ELSE 10 * decimal(SubSeq(s, 1, Len(s) - 1)) + DigitValue(s[Len(s)])

\* a successfully parsed value / a failed parse
ParseOk(v) == [ok |-> TRUE, value |-> v, error |-> ""]
ParseErr(e) == [ok |-> FALSE, value |-> 0, error |-> e]

\* str::parse::<$name>(): an integer is an optional sign ("-" only for a
\* signed type) and digits, and must fit the type; a String is the text itself
str_parse(ty, text) ==
    LET signed == text # <<>> /\ text[1] \in {"+", "-"}
        digits == IF signed THEN Tail(text) ELSE text
        value == IF signed /\ text[1] = "-" THEN 0 - decimal(digits) ELSE decimal(digits)
        min == IF ty = "i8" THEN 0 - 128 ELSE 0
        max == IF ty = "i8" THEN 127 ELSE 255
    IN  IF ty = "String" THEN ParseOk(text)
        ELSE IF text = <<>> THEN ParseErr("Empty")
        ELSE IF ~is_digits(digits) \/ (ty = "u8" /\ signed /\ text[1] = "-")
        THEN ParseErr("InvalidDigit")
        ELSE IF value > max THEN ParseErr("PosOverflow")
        ELSE IF value < min THEN ParseErr("NegOverflow")
        ELSE ParseOk(value)

\* a capture group of a match: its text, or no value
Present(text) == [present |-> TRUE, text |-> text]
Absent == [present |-> FALSE, text |-> <<>>]

\* Captures::get(i): None for a group that is not in the pattern or that did
\* not take part in the match
captures_get(c, i) == IF i \in DOMAIN c THEN c[i] ELSE Absent

\* ------------------------------------------------------------------- state

VARIABLES
    phase,       \* "source", "analyzed" (SpecArgs), "compiled", "rejected"
    re_str,      \* the format string of the attribute
    args,        \* what arguments(&re_str) returned
    item,        \* the struct and attribute the derive is applied to
    impls,       \* what reformation_derive made of each type that derives
                 \* Reformation: of Inner, and of Self, the struct under derivation
    STR,         \* the lazy static of regex_str(): its string (val), and where
                 \* each character of it comes from (from)
    RE,          \* the lazy static of from_str: its Once and its Regex
    built,       \* every Regex that Regex::new has returned, in order
    threads,     \* the threads that call from_str
    pc,          \* where each thread is in from_str
    input_str,   \* the argument of each thread's from_str
    matcher,     \* the Regex each thread applied: <<>> before it does, <<re>> after
    captures,    \* what RE.captures returned to each thread: None or Some(groups)
    stack,       \* each thread's frames of from_captures, innermost last
    calls,       \* each thread's calls of a field's from_captures, in order: the
                 \* frame's type, base offset and depth, the field, its type and
                 \* place k in the frame, the offset passed, and how the call went
    result       \* what each thread's from_str returned

vars == <<phase, re_str, args, item, impls, STR, RE, built, threads, pc,
          input_str, matcher, captures, stack, calls, result>>

compile_vars == <<phase, re_str, args, item, impls>>
static_vars == <<STR, RE, built>>

\* --------------------------------------------------------- the derive macro

\* struct Inner{ x: i8, y: u8 } with #[reformation(r"{x}:{y}")], a type that
\* derives Reformation and that the struct under derivation may embed
InnerItem ==
    [attr |-> "lit", re |-> <<"{", "x", "}", ":", "{", "y", "}">>, data |-> "named",
     fields |-> <<[ident |-> <<"x">>, ty |-> "i8"], [ident |-> <<"y">>, ty |-> "u8"]>>]

\* a faulty filter, against which C4 is tested: every field survives
surviving_all(fields, placeholders) == fields

\* fields.iter().map(..).filter(|(ident, _ty)| args.contains(&ident.to_string()))
surviving(fields, placeholders) ==
    SelectSeq(fields, LAMBDA f : f.ident \in placeholders)

\* reformation_derive and impl_from_str_body: the compile_error! the macro
\* expands to, or the names and types the generated impl is built from
reformation_derive(ds) ==
    LET failed(msg) == [error |-> msg, re_str |-> <<>>, names |-> <<>>, types |-> <<>>]
        found == arguments(ds.re)
        kept == surviving(ds.fields, found.map)
    IN  IF ds.attr = "none"
        THEN failed("Attribute #[re_parse(r\"..\")] containing format string not found.")
        ELSE IF ds.attr # "lit"
        THEN failed("regex_parse argument must be string literal.")
        ELSE IF found.panicked THEN failed("proc-macro derive panicked")
        ELSE IF ds.data = "enum" THEN failed("regex_parse supports only structs.")
        ELSE IF ds.data # "named"
        THEN failed("regex_parse supports only structs with named fields.")
        ELSE [error |-> "", re_str |-> ds.re,
              names |-> [k \in 1..Len(kept) |-> kept[k].ident],
              types |-> [k \in 1..Len(kept) |-> kept[k].ty]]

\* the impl of a type that derives Reformation
impl_of(ty) == impls[ty]

RECURSIVE type_regex_str(_), type_captures_count(_)

\* the generated regex_str(): format!(#re_str, #(#names = <#types>::regex_str()),*)
\* with the annotations of its characters; ok is whether format! accepts it
derived_regex_str(impl) ==
    LET value(k) == type_regex_str(impl.types[k])
        named == [name \in {impl.names[k] : k \in 1..Len(impl.names)} |->
                    value(CHOOSE k \in 1..Len(impl.names) : impl.names[k] = name).out]
    IN  IF \A k \in 1..Len(impl.names) : value(k).ok
        THEN format_macro(impl.re_str, named)
        ELSE [ok |-> FALSE, out |-> <<>>]

\* <ty as Reformation>::regex_str()
type_regex_str(ty) ==
    IF ty \in Primitives
    THEN [ok |-> TRUE,
          out |-> [k \in 1..Len(primitive_regex_str(ty)) |->
                      Annotated(primitive_regex_str(ty)[k], <<>>, ty)]]
    ELSE derived_regex_str(impl_of(ty))

RECURSIVE count_loop(_, _)
\* let mut count = 0; #(count += <#types>::captures_count();)* count
count_loop(types, count) ==
    IF types = <<>> THEN count
    ELSE count_loop(Tail(types), count + type_captures_count(Head(types)))

\* the generated captures_count()
derived_captures_count(impl) == count_loop(impl.types, 0)

\* <ty as Reformation>::captures_count(): 1 for a primitive
type_captures_count(ty) ==
    IF ty \in Primitives THEN 1
    ELSE derived_captures_count(impl_of(ty))

\* ------------------------------------------------------- the generated code

\* a faulty entry condition, against which C7 is tested: a thread also enters the initializer
\* while another thread is running it
once_enters_unsynchronized(state) == state \in {"incomplete", "running"}

\* lazy_static!{ static ref RE: Regex = {..}; }: the initializer runs under a
\* std::sync::Once, entered only by the thread that finds it incomplete
once_enters(state) == state = "incomplete"

\* a faulty error value, against which C5 is tested: the pattern where the input belongs
no_match_swapped(format, input) ==
    [kind |-> "NoRegexMatch", format |-> format, request |-> format,
     record |-> <<>>, error |-> ""]

\* ::reformation::NoRegexMatch{ format: Self::regex_str(), request: input_str.to_string() }
no_match(format, input) ==
    [kind |-> "NoRegexMatch", format |-> format, request |-> input,
     record |-> <<>>, error |-> ""]

\* a faulty offset step, against which C2 is tested: one capture per field, whatever its type
next_offset_by_one(offset, ty) == offset + 1

\* offset += <#types4 as ::reformation::Reformation>::captures_count();
next_offset(offset, ty) == offset + type_captures_count(ty)

\* a faulty `?`, against which C6 is tested: a failed field does not end from_captures
question_mark_ignored(res) == FALSE

\* the `?` after from_captures(..) and parse::<$name>(): an Err returns at once
question_mark_returns(res) == ~res.ok

\* Self::from_captures(&captures, 1)
first_offset == 1

\* ------------------------------------------------------------------ inputs

\* the characters of the format strings of SpecArgs
ArgChars == {"{", "}", "a", "U"}

\* what the format strings of Spec are put together from: the placeholders
\* {a} {b} {n}, the literal a, {a} in an optional group, a capturing group
\* written in the format string, an alternation, a doubled-bracket span around
\* a, and the escaped brackets \{{ and \}} of the crate's documentation
Pieces ==
    { <<"{", "a", "}">>, <<"{", "b", "}">>, <<"{", "n", "}">>, <<"a">>,
      <<"(", "?", ":", "{", "a", "}", ")", "?">>, <<"(", "a", ")">>, <<"|">>,
      <<"{", "{", "a", "}", "}">>, <<"\\", "{", "{">>, <<"\\", "}", "}">> }

RECURSIVE Templates(_)
\* every concatenation of at most n pieces
Templates(n) ==
    IF n = 0 THEN {<<>>}
    ELSE Templates(n - 1) \cup {t \o q : t \in Templates(n - 1), q \in Pieces}

\* the fields a struct under derivation may declare
FieldPool ==
    { [ident |-> <<"a">>, ty |-> "u8"], [ident |-> <<"b">>, ty |-> "String"],
      [ident |-> <<"n">>, ty |-> "Inner"] }

RECURSIVE Schemas(_)
\* every sequence of at most n fields of distinct names
Schemas(n) ==
    IF n = 0 THEN {<<>>}
    ELSE Schemas(n - 1) \cup
         UNION { {Append(fs, f) : f \in {g \in FieldPool : \A k \in 1..Len(fs) : fs[k] # g}} :
                 fs \in Schemas(n - 1) }

\* items the macro rejects: no attribute, an attribute that is no string
\* literal, a tuple struct, an enum
RejectedItems ==
    { [attr |-> a, re |-> <<"{", "a", "}">>, data |-> d,
       fields |-> <<[ident |-> <<"a">>, ty |-> "u8"]>>] :
         a \in {"none", "expr", "lit"}, d \in {"named", "tuple", "enum"} }

Items ==
    RejectedItems \cup
    { [attr |-> "lit", re |-> t, data |-> "named", fields |-> fs] :
         t \in Templates(MaxPieces), fs \in Schemas(MaxFields) }

\* the strings from_str is called on
Inputs == {<<"7", ":", "3", "0", "0">>, <<"x">>}

\* the texts a capture group may hold
Texts == {<<"7">>, <<"3", "0", "0">>, <<"x">>}

\* Does the sub-pattern of a group match the text?  A group of a primitive's
\* $re matches what the $re says; a group written in the format string is
\* taken to match any of the texts.
group_matches(prim, text) ==
    CASE prim = "u8" -> is_digits(text)
      [] prim = "i8" -> is_digits(IF text[1] \in {"+", "-"} THEN Tail(text) ELSE text)
      [] OTHER -> TRUE

RECURSIVE slot_choices(_)
\* every sequence that takes its k-th element from the k-th set
slot_choices(sets) ==
    IF sets = <<>> THEN {<<>>}
    ELSE {<<x>> \o rest : x \in Head(sets), rest \in slot_choices(Tail(sets))}

\* Regex::captures on a match of the annotated pattern: every group holds a
\* text its sub-pattern matches, and only a group the match may skip holds none
match_captures(pattern) ==
    LET p == Plain(pattern)
        groups == capture_groups(p)
        of(g) == {Present(text) : text \in {x \in Texts : group_matches(pattern[groups[g]].prim, x)}}
                 \cup (IF may_not_participate(p, groups[g]) THEN {Absent} ELSE {})
    IN  slot_choices([g \in 1..Len(groups) |-> of(g)])

\* ------------------------------------------------------------------- states

NoResult == [kind |-> "", format |-> <<>>, request |-> <<>>, record |-> <<>>, error |-> ""]

Idle(ts) ==
    /\ STR = [init |-> FALSE, val |-> <<>>, from |-> <<>>]
    /\ RE = [state |-> "incomplete", val |-> <<>>]
    /\ built = <<>>
    /\ threads = ts
    /\ pc = [t \in ts |-> "idle"]
    /\ input_str = [t \in ts |-> <<>>]
    /\ matcher = [t \in ts |-> <<>>]
    /\ captures = [t \in ts |-> [is |-> "", groups |-> <<>>]]
    /\ stack = [t \in ts |-> <<>>]
    /\ calls = [t \in ts |-> <<>>]
    /\ result = [t \in ts |-> NoResult]

NoImpl == [error |-> "", re_str |-> <<>>, names |-> <<>>, types |-> <<>>]

Init ==
    /\ phase = "source"
    /\ item \in Items
    /\ re_str = <<>>
    /\ args = [map |-> {}, panicked |-> FALSE]
    /\ impls = [Self |-> NoImpl, Inner |-> reformation_derive(InnerItem)]
    /\ Idle({1})

InitArgs ==
    /\ phase = "source"
    /\ item = InnerItem
    /\ re_str = <<>>
    /\ args = [map |-> {}, panicked |-> FALSE]
    /\ impls = [Self |-> NoImpl, Inner |-> reformation_derive(InnerItem)]
    /\ Idle({1})

\* ------------------------------------------------------------------ actions

\* let args = arguments(&re_str), on any format string
CallArguments ==
    /\ phase = "source"
    /\ \E s \in Strings(ArgChars, MaxLen) :
          /\ re_str' = s
          /\ args' = arguments(s)
    /\ phase' = "analyzed"
    /\ UNCHANGED <<item, impls, STR, RE, built, threads, pc, input_str, matcher,
                   captures, stack, calls, result>>

\* #[derive(Reformation)] on the item, then the compilation of what it expands
\* to: format! rejects a format string it cannot use with the names given
Derive ==
    /\ phase = "source"
    /\ impls' = [impls EXCEPT !.Self = reformation_derive(item)]
    /\ re_str' = IF item.attr = "lit" THEN item.re ELSE <<>>
    /\ args' = IF item.attr = "lit" THEN arguments(item.re) ELSE args
    /\ phase' = IF impls'.Self.error = "" /\ derived_regex_str(impls'.Self).ok
                THEN "compiled" ELSE "rejected"
    /\ UNCHANGED <<item, STR, RE, built, threads, pc, input_str, matcher,
                   captures, stack, calls, result>>

\* a thread calls from_str(input_str)
FromStr(t) ==
    /\ phase = "compiled"
    /\ pc[t] = "idle"
    /\ \E s \in Inputs : input_str' = [input_str EXCEPT ![t] = s]
    /\ pc' = [pc EXCEPT ![t] = "RE"]
    /\ UNCHANGED <<compile_vars, static_vars, threads, matcher, captures, stack, calls, result>>

\* the deref of RE: Once::call_once lets the first thread in, makes the
\* others wait while it runs, and panics once an initializer has panicked
CallOnce(t) ==
    /\ pc[t] = "RE"
    /\ once_enters(RE.state) \/ RE.state \in {"complete", "poisoned"}
    /\ RE' = IF once_enters(RE.state) THEN [RE EXCEPT !.state = "running"] ELSE RE
    /\ pc' = [pc EXCEPT ![t] = IF once_enters(RE.state) THEN "RE_init"
                                ELSE IF RE.state = "complete" THEN "captures"
                                ELSE "panicked"]
    /\ UNCHANGED <<compile_vars, STR, built, threads, input_str, matcher, captures,
                   stack, calls, result>>

\* the initializer of RE: Regex::new(Self::regex_str()), which panics on a
\* pattern that is no regular expression; regex_str() initializes STR
RegexNew(t) ==
    /\ pc[t] = "RE_init"
    /\ LET annotated == derived_regex_str(impls.Self).out
           composed == Plain(annotated)
       IN  /\ STR' = [init |-> TRUE, val |-> composed, from |-> annotated]
           /\ IF regex_valid(composed)
              THEN /\ RE' = [state |-> "complete", val |-> composed]
                   /\ built' = Append(built, composed)
                   /\ pc' = [pc EXCEPT ![t] = "captures"]
              ELSE /\ RE' = [state |-> "poisoned", val |-> <<>>]
                   /\ built' = built
                   /\ pc' = [pc EXCEPT ![t] = "panicked"]
    /\ UNCHANGED <<compile_vars, threads, input_str, matcher, captures, stack, calls, result>>

\* RE.captures(input_str): no match returns the NoRegexMatch error, a match
\* calls Self::from_captures(&captures, 1)
Captures(t) ==
    /\ pc[t] = "captures"
    /\ matcher' = [matcher EXCEPT ![t] = <<RE.val>>]
    /\ \/ /\ captures' = [captures EXCEPT ![t] = [is |-> "None", groups |-> <<>>]]
          /\ result' = [result EXCEPT ![t] = no_match(STR.val, input_str[t])]
          /\ pc' = [pc EXCEPT ![t] = "returned"]
          /\ UNCHANGED stack
       \/ /\ \E c \in match_captures(STR.from) :
                captures' = [captures EXCEPT ![t] = [is |-> "Some", groups |-> c]]
          /\ stack' = [stack EXCEPT ![t] =
                          <<[ty |-> "Self", k |-> 1, offset |-> first_offset,
                             base |-> first_offset, values |-> <<>>]>>]
          /\ pc' = [pc EXCEPT ![t] = "from_captures"]
          /\ UNCHANGED result
    /\ UNCHANGED <<compile_vars, static_vars, threads, input_str, calls>>

\* one step of from_captures in the innermost frame: the next field's
\* from_captures(&captures, offset)? and offset += captures_count(), or, after
\* the last field, Ok(Self{..}) returned to the caller
FromCaptures(t) ==
    /\ pc[t] = "from_captures"
    /\ LET n == Len(stack[t])
           f == stack[t][n]
           me == impl_of(f.ty)
           name == me.names[f.k]
           fty == me.types[f.k]
           slot == captures_get(captures[t].groups, f.offset)
           res == str_parse(fty, slot.text)
           call == [ty |-> f.ty, field |-> name, fty |-> fty, offset |-> f.offset,
                    base |-> f.base, k |-> f.k, depth |-> n,
                    outcome |-> IF fty \notin Primitives THEN "entered"
                                ELSE IF ~slot.present THEN "absent"
                                ELSE IF res.ok THEN "ok" ELSE "err"]
           bound(frame, field, ty, value) ==
               [frame EXCEPT !.values = Append(@, [name |-> field, value |-> value]),
                             !.offset = next_offset(@, ty), !.k = @ + 1]
       IN  IF f.k > Len(me.names)
           THEN \* Ok(Self{ #(#names3,)* })
                /\ calls' = calls
                /\ IF n = 1
                   THEN /\ result' = [result EXCEPT ![t] = [NoResult EXCEPT
                                         !.kind = "Ok", !.record = f.values]]
                        /\ stack' = [stack EXCEPT ![t] = <<>>]
                        /\ pc' = [pc EXCEPT ![t] = "returned"]
                   ELSE LET parent == stack[t][n - 1]
                            its == impl_of(parent.ty)
                        IN  /\ stack' = [stack EXCEPT ![t] =
                                   Append(SubSeq(@, 1, n - 2),
                                          bound(parent, its.names[parent.k],
                                                its.types[parent.k], f.values))]
                            /\ UNCHANGED <<result, pc>>
           ELSE IF fty \notin Primitives
           THEN \* <#types3>::from_captures(&captures, offset) of a derived type
                /\ calls' = [calls EXCEPT ![t] = Append(@, call)]
                /\ stack' = [stack EXCEPT ![t] =
                       Append(@, [ty |-> fty, k |-> 1, offset |-> f.offset,
                                  base |-> f.offset, values |-> <<>>])]
                /\ UNCHANGED <<result, pc>>
           ELSE \* c.get(offset).unwrap().as_str().parse::<$name>()?
                /\ calls' = [calls EXCEPT ![t] = Append(@, call)]
                /\ IF ~slot.present
                   THEN /\ pc' = [pc EXCEPT ![t] = "panicked"]
                        /\ UNCHANGED <<result, stack>>
                   ELSE IF question_mark_returns(res)
                   THEN /\ result' = [result EXCEPT ![t] = [NoResult EXCEPT
                                         !.kind = "ParseError", !.error = res.error]]
                        /\ stack' = [stack EXCEPT ![t] = <<>>]
                        /\ pc' = [pc EXCEPT ![t] = "returned"]
                   ELSE /\ stack' = [stack EXCEPT ![t] =
                               Append(SubSeq(@, 1, n - 1), bound(f, name, fty, res.value))]
                        /\ UNCHANGED <<result, pc>>
    /\ UNCHANGED <<compile_vars, static_vars, threads, input_str, matcher, captures>>

Next ==
    \/ Derive
    \/ \E t \in threads : FromStr(t)
    \/ \E t \in threads : CallOnce(t)
    \/ \E t \in threads : RegexNew(t)
    \/ \E t \in threads : Captures(t)
    \/ \E t \in threads : FromCaptures(t)

Spec == Init /\ [][Next]_vars

\* the items of SpecConc: one that parses a field, one whose composed pattern
\* is no regular expression, one with an optional field, one with a nested type
ConcItems ==
    { [attr |-> "lit", re |-> <<"{", "a", "}">>, data |-> "named",
       fields |-> <<[ident |-> <<"a">>, ty |-> "u8"]>>],
      [attr |-> "lit", re |-> <<"{", "{", "a", "}", "}">>, data |-> "named",
       fields |-> <<>>],
      [attr |-> "lit", re |-> <<"(", "?", ":", "{", "a", "}", ")", "?">>, data |-> "named",
       fields |-> <<[ident |-> <<"a">>, ty |-> "u8"]>>],
      [attr |-> "lit", re |-> <<"{", "n", "}">>, data |-> "named",
       fields |-> <<[ident |-> <<"n">>, ty |-> "Inner"]>>] }

InitConc ==
    /\ phase = "source"
    /\ item \in ConcItems
    /\ re_str = <<>>
    /\ args = [map |-> {}, panicked |-> FALSE]
    /\ impls = [Self |-> NoImpl, Inner |-> reformation_derive(InnerItem)]
    /\ Idle(1..NThreads)

\* from_str called by several threads at once
SpecConc == InitConc /\ [][Next]_vars

NextArgs == CallArguments

SpecArgs == InitArgs /\ [][NextArgs]_vars

\* -------------------------------------------------------------- properties

\* the calls a thread has made of a field's from_captures
CallsOf(t) == {calls[t][j] : j \in 1..Len(calls[t])}

RECURSIVE WidthsBefore(_, _)
\* the captures_count() of the first k - 1 of the types, added up
WidthsBefore(types, k) ==
    IF k <= 1 THEN 0
    ELSE WidthsBefore(types, k - 1) + type_captures_count(types[k - 1])

\* the fields of the item that no name found by arguments() names
NonParticipating ==
    {j \in 1..Len(item.fields) : item.fields[j].ident \notin args.map}

\* the item without the fields that no placeholder names
ParticipatingItem ==
    [item EXCEPT !.fields = SelectSeq(item.fields, LAMBDA f : f.ident \in args.map)]

\* the derive has run on a struct with named fields and a string literal
Derived == phase \in {"compiled", "rejected"} /\ impls.Self.error = ""

\* C2: in from_captures, called from from_str, the first surviving field is
\* passed offset 1 and each later one the offset of the field before it plus
\* that field's captures_count(); a nested from_captures called with offset o
\* passes o to its first field and goes on the same way.
C2_OffsetRecurrence ==
    \A t \in threads : \A j \in 1..Len(calls[t]) :
        LET c == calls[t][j]
            types == impl_of(c.ty).types
            \* the call that entered the frame c was made in
            outer == {i \in 1..(j - 1) :
                        /\ calls[t][i].depth = c.depth - 1
                        /\ \A m \in (i + 1)..(j - 1) : calls[t][m].depth >= c.depth}
        IN  /\ c.offset = c.base + WidthsBefore(types, c.k)
            /\ c.k > 1 =>
                  \E i \in 1..(j - 1) :
                      /\ calls[t][i].depth = c.depth /\ calls[t][i].k = c.k - 1
                      /\ calls[t][i].base = c.base
                      /\ c.offset = calls[t][i].offset
                                    + type_captures_count(calls[t][i].fty)
            /\ c.depth = 1 => c.base = 1
            /\ c.depth > 1 =>
                  \E i \in outer : calls[t][i].fty = c.ty /\ calls[t][i].offset = c.base

\* from_str has passed offset 1 to a first field and offset 2 to the field of
\* type Inner after it, whose from_captures has passed 2 to its own first field
\* and 3 to its second
C2_Witness ==
    \E t \in threads :
        /\ \E c \in CallsOf(t) : c.depth = 1 /\ c.k = 1 /\ c.offset = 1
        /\ \E c \in CallsOf(t) : c.depth = 1 /\ c.k = 2 /\ c.offset = 2 /\ c.fty = "Inner"
        /\ \E c \in CallsOf(t) : c.depth = 2 /\ c.k = 2 /\ c.base = 2 /\ c.offset = 3

C5_NoMatch ==
    \A t \in threads :
        captures[t].is = "None" =>
            /\ pc[t] = "returned"
            /\ result[t].kind = "NoRegexMatch"
            /\ result[t].request = input_str[t]
            /\ result[t].format = Plain(derived_regex_str(impls.Self).out)
            /\ result[t].record = <<>>
            /\ calls[t] = <<>>
            /\ stack[t] = <<>>

\* from_str has returned NoRegexMatch for an input, under a pattern that is
\* not that input
C5_Witness ==
    \E t \in threads :
        /\ captures[t].is = "None"
        /\ result[t].kind = "NoRegexMatch"
        /\ result[t].format # input_str[t]
        /\ impls.Self.names # <<>>

\* C6: parsing is all or nothing: a field whose reconstruction fails is the
\* last one from_captures calls, the error is what from_str returns, and no
\* record is returned; a record is returned only when every surviving field
\* has been reconstructed successfully, in the order of the schema.
C6_AllOrNothing ==
    \A t \in threads :
        LET top == SelectSeq(calls[t], LAMBDA c : c.depth = 1)
        IN  /\ \A j \in 1..Len(calls[t]) :
                  calls[t][j].outcome = "err" =>
                      /\ j = Len(calls[t])
                      /\ pc[t] = "returned"
                      /\ result[t].kind = "ParseError"
                      /\ result[t].record = <<>>
                      /\ stack[t] = <<>>
            /\ result[t].kind = "ParseError" =>
                  calls[t] # <<>> /\ calls[t][Len(calls[t])].outcome = "err"
            /\ result[t].kind = "Ok" =>
                  /\ \A c \in CallsOf(t) : c.outcome \in {"ok", "entered"}
                  /\ [k \in 1..Len(top) |-> top[k].field] = impls.Self.names
                  /\ [k \in 1..Len(result[t].record) |-> result[t].record[k].name]
                        = impls.Self.names

\* a field has failed to parse while a later surviving field was still to be
\* reconstructed, and from_str has returned the error
C6_Witness ==
    \E t \in threads :
        /\ result[t].kind = "ParseError"
        /\ \E c \in CallsOf(t) :
              c.outcome = "err" /\ c.depth = 1 /\ c.k < Len(impls.Self.names)

\* C7: under any interleaving of from_str calls, Regex::new returns the
\* matcher of the type at most once, a thread only applies the matcher that
\* was constructed, and once constructed the value of RE is that matcher.
C7_InitOnce ==
    /\ Len(built) <= 1
    /\ RE.state = "complete" => built = <<RE.val>>
    /\ \A t \in threads :
          /\ pc[t] = "captures" => RE.state = "complete"
          /\ matcher[t] # <<>> => matcher[t] = built /\ RE.state = "complete"

\* two threads have applied the one matcher
C7_Witness ==
    /\ Len(built) = 1
    /\ \E t, u \in threads : t # u /\ matcher[t] # <<>> /\ matcher[u] # <<>>

\* the capture groups of the pattern of Self that lie in the value
\* substituted for the placeholder(s) of a name
GroupsFrom(name) ==
    LET groups == capture_groups(STR.val)
    IN  {g \in 1..Len(groups) : STR.from[groups[g]].owner = name}

\* C1: whenever the composed pattern matches, each surviving field is
\* reconstructed from exactly the capture groups of the sub-pattern put at
\* its own placeholder, whatever the order and number of the placeholders.
C1_CapturesRouted ==
    \A t \in threads : \A c \in CallsOf(t) :
        c.depth = 1 =>
            GroupsFrom(c.field) = c.offset..(c.offset + type_captures_count(c.fty) - 1)

\* C3: a format string that is a doubled open bracket, text without brackets
\* and a doubled close bracket, between texts without brackets, yields no
\* placeholder name.
C3_EscapedSpan ==
    LET s == re_str
        brackets == {k \in 1..Len(s) : s[k] \in {"{", "}"}}
    IN  (/\ phase = "analyzed"
         /\ \E i, j \in 1..Len(s) :
               /\ i + 1 < j
               /\ brackets = {i, i + 1, j, j + 1}
               /\ s[i] = "{" /\ s[i + 1] = "{" /\ s[j] = "}" /\ s[j + 1] = "}")
        => args.map = {}

\* C8: when the format string of a derived type writes no capturing group of
\* its own, the pattern composed from it holds as many capturing groups as
\* captures_count() says.
C8_GroupCount ==
    LET pattern == derived_regex_str(impls.Self).out
        groups == capture_groups(Plain(pattern))
    IN  (/\ phase = "compiled"
         /\ \A g \in 1..Len(groups) : pattern[groups[g]].prim # "")
        => count_groups(Plain(pattern)) = derived_captures_count(impls.Self)

\* a "{" that arguments() pushes a start position for
Pushes(s, k) == s[k] = "{" /\ ~(k < Len(s) /\ s[k + 1] = "{")

\* the pushing "{" at i and the "}" at j belong together: between them every
\* "}" has a pushing "{" of its own before it, and none is left over
Paired(s, i, j) ==
    LET opens(m) == Cardinality({k \in (i + 1)..m : Pushes(s, k)})
        closes(m) == Cardinality({k \in (i + 1)..m : s[k] = "}"})
    IN  /\ i < j /\ Pushes(s, i) /\ s[j] = "}"
        /\ \A m \in (i + 1)..(j - 1) : closes(m) <= opens(m)
        /\ closes(j - 1) = opens(j - 1)

\* C9: arguments() ends without a panic on every format string and returns
\* exactly the texts between each "}" and the "{" it belongs to by stack
\* discipline; a "}" that belongs to none and a "{" left open give no name.
C9_Arguments ==
    phase = "analyzed" =>
        /\ ~args.panicked
        /\ args.map = {SubSeq(re_str, i + 1, j - 1) :
                          <<i, j>> \in {p \in (1..Len(re_str)) \X (1..Len(re_str)) :
                                          Paired(re_str, p[1], p[2])}}

\* arguments() has run on a format string with one placeholder nested in
\* another, and has returned two names
C9_Witness ==
    /\ phase = "analyzed"
    /\ Cardinality(args.map) = 2
    /\ \E i, j, k, l \in 1..Len(re_str) :
          i < j /\ j < k /\ k < l /\ Paired(re_str, i, l) /\ Paired(re_str, j, k)

\* C10: whenever the composed pattern matches, every capture a field's
\* from_captures reads has a value, so from_str ends by returning a record or
\* an error and reconstruction never aborts.
C10_NoAbort ==
    \A t \in threads :
        captures[t].is = "Some" =>
            /\ pc[t] # "panicked"
            /\ \A c \in CallsOf(t) : c.outcome # "absent"

====
